---- MODULE Spec2Model ----
(***************************************************************************)
(* Model of the fundamental-analysis core of fyAnalysis:                   *)
(*   FundamentalAnalyzer.get_fundamental_data  (provider reconciliation),  *)
(*   FundamentalAnalyzer._validate_and_cleanup_metrics / _display_metrics, *)
(*   FundamentalAnalyzer.calculate_score       (weighted 0-100 score),     *)
(*   FundamentalAnalyzer.analyze_stocks        (ranking pipeline).         *)
(*                                                                         *)
(* Encoding of Python values.                                              *)
(*   - None is <<>>, a number v is <<v>>, a value float() rejects (a       *)
(*     non-numeric string) is NonNumeric.                                  *)
(*   - a dict is a function; {} is the function with the empty domain.     *)
(*   - numbers are integers in a fixed unit per metric: hundredths for the *)
(*     five ratios (0.12 is 12, 2.0 is 200) and crore (1e7) for            *)
(*     free_cash_flow (-1e9 is -100).  Every sub-score formula of          *)
(*     calculate_score is a quotient of value and threshold, so the unit   *)
(*     cancels.  Weights are in percent (0.25 is 25); the score is a       *)
(*     quotient of two weight sums, so that unit cancels too.              *)
(*   - scores are exact rationals <<numerator, denominator>> in lowest     *)
(*     terms with a positive denominator.                                  *)
(***************************************************************************)
EXTENDS Integers, Sequences, FiniteSets, TLC

VARIABLES
    tickers,        \* analyze_stocks: the ticker list argument
    top_n,          \* analyze_stocks: the top_n argument
    idx,            \* analyze_stocks: position of the for loop in tickers
    pc,             \* control point of the running call
    src,            \* get_fundamental_data: position in Config.DATA_SOURCES
    metrics,        \* get_fundamental_data / calculate_score: the metrics dict
    calls,          \* providers invoked so far for the current ticker
    log,            \* what each of those invocations produced
    data,           \* analyze_stocks: value returned by get_fundamental_data
    score,          \* value returned by calculate_score
    stock_scores,   \* analyze_stocks: list of (ticker, score, data)
    result,         \* analyze_stocks: the returned list
    supplied,       \* per finished ticker: the metrics some provider supplied
    paused          \* seconds slept inside each provider call of the current ticker

vars == <<tickers, top_n, idx, pc, src, metrics, calls, log, data, score,
          stock_scores, result, supplied, paused>>

-----------------------------------------------------------------------------
(* Python values *)

None == <<>>

Num(v) == <<v>>

NonNumeric == <<"N", "A">>

IsNum(x) == Len(x) = 1

EmptyDict == [k \in {} |-> None]

-----------------------------------------------------------------------------
(* Config *)

MetricOrder ==
    <<"roe", "debt_to_equity", "net_profit_margin", "current_ratio",
      "interest_coverage", "free_cash_flow">>

Metrics == {MetricOrder[i] : i \in 1..Len(MetricOrder)}

WEIGHTS ==
    [roe |-> 25, debt_to_equity |-> 15, net_profit_margin |-> 20,
     current_ratio |-> 10, interest_coverage |-> 15, free_cash_flow |-> 15]

THRESHOLDS ==
    [roe |-> 12, debt_to_equity |-> 200, net_profit_margin |-> 8,
     current_ratio |-> 120, interest_coverage |-> 200, free_cash_flow |-> -100]

METRIC_DIRECTION ==
    [roe |-> "higher", debt_to_equity |-> "lower", net_profit_margin |-> "higher",
     current_ratio |-> "higher", interest_coverage |-> "higher",
     free_cash_flow |-> "higher"]

DATA_SOURCES == <<"yfinance_info", "yfinance_calculated", "screener">>

\* Config.SCRAPER_DELAY, in seconds.
SCRAPER_DELAY == 3

-----------------------------------------------------------------------------
(* Exact arithmetic for the float expressions of calculate_score *)

Abs(x) == IF x < 0 THEN -x ELSE x

RECURSIVE GCD(_, _)
GCD(a, b) == IF b = 0 THEN a ELSE GCD(b, a % b)

Frac(n, d) ==
    LET g == GCD(Abs(n), Abs(d))
        s == IF d < 0 THEN -1 ELSE 1
    IN  <<(s * n) \div g, (s * d) \div g>>

R(n) == <<n, 1>>

RAdd(a, b) == Frac(a[1] * b[2] + b[1] * a[2], a[2] * b[2])

RSub(a, b) == Frac(a[1] * b[2] - b[1] * a[2], a[2] * b[2])

RMul(a, b) == Frac(a[1] * b[1], a[2] * b[2])

RDiv(a, b) == Frac(a[1] * b[2], a[2] * b[1])

RLe(a, b) == a[1] * b[2] <= b[1] * a[2]

RMin(a, b) == IF RLe(b, a) /\ ~RLe(a, b) THEN b ELSE a

RMax(a, b) == IF RLe(a, b) /\ ~RLe(b, a) THEN b ELSE a

-----------------------------------------------------------------------------
(* FundamentalAnalyzer.calculate_score *)

\* Variant of MetricScore without the 2x-threshold cap of the higher-is-better
\* branch (the elif of line 199 and the min of line 205 left out).
MetricScoreNoCap(metric, value, threshold, direction) ==
    IF direction = "higher"
    THEN IF value <= 0
         THEN R(0)
         ELSE RAdd(R(50), RDiv(R(50 * (value - threshold)), R(threshold)))
    ELSE IF value <= 0 /\ metric # "debt_to_equity"
         THEN R(100)
         ELSE IF RLe(R(value), Frac(threshold, 2))
         THEN R(100)
         ELSE IF value <= threshold
         THEN RAdd(R(50), RDiv(R(50 * (threshold - value)), Frac(threshold, 2)))
         ELSE RMax(R(0),
                   RSub(R(50),
                        RMul(R(50), RMin(R(1), Frac(value - threshold, threshold)))))

\* Variant of MetricScore whose lower-is-better middle branch divides by the
\* threshold instead of half the threshold (line 216).
MetricScoreLowerSlope(metric, value, threshold, direction) ==
    IF direction = "higher"
    THEN IF value <= 0
         THEN R(0)
         ELSE IF value >= threshold * 2
         THEN R(100)
         ELSE RMin(R(100),
                   RAdd(R(50), RDiv(R(50 * (value - threshold)), R(threshold))))
    ELSE IF value <= 0 /\ metric # "debt_to_equity"
         THEN R(100)
         ELSE IF RLe(R(value), Frac(threshold, 2))
         THEN R(100)
         ELSE IF value <= threshold
         THEN RAdd(R(50), RDiv(R(50 * (threshold - value)), R(threshold)))
         ELSE RMax(R(0),
                   RSub(R(50),
                        RMul(R(50), RMin(R(1), Frac(value - threshold, threshold)))))

\* Variant of MetricScore whose lower-is-better middle branch has the
\* difference the wrong way round, value - threshold (line 216): the
\* sub-score rises between half the threshold and the threshold.
MetricScoreLowerSign(metric, value, threshold, direction) ==
    IF direction = "higher"
    THEN IF value <= 0
         THEN R(0)
         ELSE IF value >= threshold * 2
         THEN R(100)
         ELSE RMin(R(100),
                   RAdd(R(50), RDiv(R(50 * (value - threshold)), R(threshold))))
    ELSE IF value <= 0 /\ metric # "debt_to_equity"
         THEN R(100)
         ELSE IF RLe(R(value), Frac(threshold, 2))
         THEN R(100)
         ELSE IF value <= threshold
         THEN RAdd(R(50), RDiv(R(50 * (value - threshold)), Frac(threshold, 2)))
         ELSE RMax(R(0),
                   RSub(R(50),
                        RMul(R(50), RMin(R(1), Frac(value - threshold, threshold)))))

\* The sub-score of one present metric (metric_score, lines 194-220).
MetricScore(metric, value, threshold, direction) ==
    IF direction = "higher"
    THEN IF value <= 0
         THEN R(0)
         ELSE IF value >= threshold * 2
         THEN R(100)
         ELSE RMin(R(100),
                   RAdd(R(50), RDiv(R(50 * (value - threshold)), R(threshold))))
    ELSE IF value <= 0 /\ metric # "debt_to_equity"
         THEN R(100)
         ELSE IF RLe(R(value), Frac(threshold, 2))
         THEN R(100)
         ELSE IF value <= threshold
         THEN RAdd(R(50), RDiv(R(50 * (threshold - value)), Frac(threshold, 2)))
         ELSE RMax(R(0),
                   RSub(R(50),
                        RMul(R(50), RMin(R(1), Frac(value - threshold, threshold)))))

\* The for loop over metrics.items() (lines 185-223): <<score, total_possible_points>>.
RECURSIVE ScoreLoop(_, _, _, _, _, _)
ScoreLoop(m, W, T, i, sc, total) ==
    IF i > Len(MetricOrder)
    THEN <<sc, total>>
    ELSE LET metric == MetricOrder[i]
             value == m[metric]
         IN  IF value = None
             THEN ScoreLoop(m, W, T, i + 1, sc, total)
             ELSE LET weight == W[metric]
                      threshold == T[metric]
                      metric_score == MetricScore(metric, value[1], threshold,
                                                  METRIC_DIRECTION[metric])
                  IN  ScoreLoop(m, W, T, i + 1,
                                RAdd(sc, RMul(metric_score, R(weight))),
                                total + weight * 100)

\* Variant of calculate_score that adds every metric's weight to
\* total_possible_points, the absent ones' too (line 191 moved above the
\* continue of line 187).
RECURSIVE TotalLoop(_, _)
TotalLoop(W, i) ==
    IF i > Len(MetricOrder) THEN 0 ELSE W[MetricOrder[i]] * 100 + TotalLoop(W, i + 1)

CalculateScoreAbsentCounted(m, W, T) ==
    LET acc == ScoreLoop(m, W, T, 1, R(0), 0)
        total == TotalLoop(W, 1)
    IN  IF total > 0
        THEN RMul(RDiv(acc[1], R(total)), R(100))
        ELSE R(0)

\* calculate_score under a given weight and threshold table.
CalculateScoreWith(m, W, T) ==
    LET acc == ScoreLoop(m, W, T, 1, R(0), 0)
    IN  IF acc[2] > 0
        THEN RMul(RDiv(acc[1], R(acc[2])), R(100))
        ELSE R(0)

\* calculate_score as the program runs it, under Config.
CalculateScore(m) == CalculateScoreWith(m, WEIGHTS, THRESHOLDS)

-----------------------------------------------------------------------------
(* FundamentalAnalyzer.get_fundamental_data and its helpers *)

\* The metrics dict of lines 25-32.
AllAbsent == [k \in Metrics |-> None]

\* Variant of AllAvailable for a loop without the break of lines 45-46.
AllAvailableNever(m) == FALSE

\* Variant of AllAvailable that is true as soon as one metric is available:
\* any() in the place of all().
AllAvailableAny(m) == \E k \in Metrics : m[k] # None

\* all(v is not None for v in metrics.values()), line 45.
AllAvailable(m) == \A k \in Metrics : m[k] # None

\* Variant of Merge without the "metrics[k] is None" test: a later source
\* overwrites the value of an earlier one.
MergeOverwrite(m, d) ==
    [k \in Metrics |-> IF k \in DOMAIN d /\ d[k] # None THEN d[k] ELSE m[k]]

\* The fill loop shared by the three _fetch_* helpers (lines 83-85, 102-104,
\* 118-120): a value is copied only into a metric that is still None.
Merge(m, d) ==
    [k \in Metrics |->
        IF k \in DOMAIN d /\ m[k] = None /\ d[k] # None THEN d[k] ELSE m[k]]

\* _fetch_yfinance_data: the outcome o is a raised exception (stock.info
\* failed, caught at line 87) or the yf_metrics dict built from info.
FetchYfinanceData(m, o) == IF o.raised THEN m ELSE Merge(m, o.ret)

\* Variant of FetchCalculatedMetrics in which a failed source resets the
\* record instead of leaving it alone.
FetchCalculatedMetricsReset(m, o) ==
    IF o.raised \/ DOMAIN o.ret = {}
    THEN [k \in Metrics |-> None]
    ELSE [k \in Metrics |->
            IF k \in DOMAIN o.ret /\ m[k] = None /\ o.ret[k] # None
            THEN o.ret[k] ELSE m[k]]

\* _fetch_calculated_metrics: get_calculated_metrics returns {} on failure;
\* "if calculated:" skips an empty dict.
FetchCalculatedMetrics(m, o) ==
    IF o.raised \/ DOMAIN o.ret = {} THEN m ELSE Merge(m, o.ret)

\* _fetch_screener_data: get_screener_data returns {} on failure;
\* "if screener_metrics:" skips an empty dict.
FetchScreenerData(m, o) ==
    IF o.raised \/ DOMAIN o.ret = {} THEN m ELSE Merge(m, o.ret)

\* The dispatch on the source name, lines 37-42.
FetchFrom(source, m, o) ==
    IF source = "yfinance_info" THEN FetchYfinanceData(m, o)
    ELSE IF source = "yfinance_calculated" THEN FetchCalculatedMetrics(m, o)
    ELSE IF source = "screener" THEN FetchScreenerData(m, o)
    ELSE m

\* float(x) if x else 0, with TypeError / ValueError giving 0 (lines 138-141).
\* None and 0 are falsy; float() of a number is that number; float() of a
\* non-numeric string raises ValueError.
FloatOrZero(x) ==
    IF x = None \/ x = Num(0) THEN Num(0)
    ELSE IF IsNum(x) THEN x
    ELSE Num(0)

\* Variant of ValidateAndCleanup that defaults every absent metric to 0, not
\* only roe and net_profit_margin.
ValidateAndCleanupDefaultAll(m) ==
    [k \in Metrics |->
        IF k = "free_cash_flow" THEN FloatOrZero(m[k])
        ELSE IF m[k] = None THEN Num(0) ELSE m[k]]

\* _validate_and_cleanup_metrics.
ValidateAndCleanup(m) ==
    [k \in Metrics |->
        IF k \in {"roe", "net_profit_margin"}
        THEN IF m[k] = None THEN Num(0) ELSE m[k]
        ELSE IF k = "free_cash_flow" THEN FloatOrZero(m[k])
        ELSE m[k]]

\* Variant of DisplayRaises for a _display_metrics that prints None values
\* without formatting them.
DisplayNeverRaises(m) == FALSE

\* _display_metrics formats every value as a number (v/1e7, v*100, :.2f):
\* a value that is None or not a number raises TypeError / ValueError.
DisplayRaises(m) == \E k \in Metrics : ~IsNum(m[k])

-----------------------------------------------------------------------------
(* Provider outcomes *)

\* Number of value levels a provider can report for a metric.
MaxLevel == 2

\* Longest ticker list.
MaxTickers == 1

\* Largest top_n.
MaxTopN == 2

\* Level l of metric k: l half-thresholds.
LevelVal(k, l) == Num(l * (THRESHOLDS[k] \div 2))

\* The sets of metrics a provider dict has values for: all six, the three
\* that cleanup defaults, the three that cleanup leaves alone, two, one, none.
Shapes ==
    {Metrics,
     {"roe", "net_profit_margin", "free_cash_flow"},
     {"debt_to_equity", "current_ratio", "interest_coverage"},
     {"roe", "debt_to_equity"},
     {"roe"},
     {}}

\* A provider's dict: the six keys, None where it has no value.
ProviderDict(shape, l) ==
    [k \in Metrics |-> IF k \in shape THEN LevelVal(k, l) ELSE None]

\* All six present, free_cash_flow a string float() rejects.
NonNumericFcfDict ==
    [ProviderDict(Metrics, 1) EXCEPT !["free_cash_flow"] = NonNumeric]

ProviderDicts ==
    {ProviderDict(s, l) : s \in Shapes, l \in 1..MaxLevel} \cup {NonNumericFcfDict}

Raised == [raised |-> TRUE, ret |-> EmptyDict]

Returned(d) == [raised |-> FALSE, ret |-> d]

\* What one provider call can produce.  yf.Ticker(...).info raises or gives
\* the info the six-key dict is built from; get_calculated_metrics and
\* get_screener_data catch every exception and return {} instead.
OutcomesOf(source, dicts) ==
    IF source = "yfinance_info"
    THEN {Raised} \cup {Returned(d) : d \in dicts}
    ELSE {Returned(EmptyDict)} \cup {Returned(d) : d \in dicts}

Outcomes(source) == OutcomesOf(source, ProviderDicts)

\* Variant of ScreenerPause for a time.sleep placed at the end of the try
\* body instead of in the finally clause: no pause when the scrape fails.
ScreenerPauseOnSuccess(o) == IF DOMAIN o.ret = {} THEN 0 ELSE SCRAPER_DELAY

\* get_screener_data sleeps in its finally clause (lines 69-71), whatever
\* the outcome o of the scrape.
ScreenerPause(o) == SCRAPER_DELAY

\* Seconds slept inside one provider call: _fetch_yfinance_data and
\* get_calculated_metrics contain no sleep.
PauseOf(source, o) == IF source = "screener" THEN ScreenerPause(o) ELSE 0

\* The metrics an outcome has a value for.
Gives(o) ==
    IF o.raised THEN {} ELSE {k \in DOMAIN o.ret : o.ret[k] # None}

\* The metrics some outcome of the log has a value for.
Supplied(l) == UNION {Gives(l[i]) : i \in 1..Len(l)}

-----------------------------------------------------------------------------
(* FundamentalAnalyzer.analyze_stocks *)

Symbols == <<"AAA.NS", "BBB.NS", "CCC.NS", "DDD.NS">>

\* a sorts strictly before b under sort(key=score, reverse=True).
Before(a, b) == RLe(b[2], a[2]) /\ ~RLe(a[2], b[2])

\* Variant of InsertDesc for an unstable sort: an entry is placed before the
\* earlier entries of equal score.
RECURSIVE InsertDescTiesFirst(_, _)
InsertDescTiesFirst(sorted, e) ==
    IF sorted = <<>> THEN <<e>>
    ELSE IF ~Before(Head(sorted), e) THEN <<e>> \o sorted
    ELSE <<Head(sorted)>> \o InsertDescTiesFirst(Tail(sorted), e)

\* list.sort(key=lambda x: x[1], reverse=True): stable, so an entry is placed
\* after the entries that do not sort strictly after it.
RECURSIVE InsertDesc(_, _)
InsertDesc(sorted, e) ==
    IF sorted = <<>> THEN <<e>>
    ELSE IF Before(e, Head(sorted)) THEN <<e>> \o sorted
    ELSE <<Head(sorted)>> \o InsertDesc(Tail(sorted), e)

RECURSIVE SortDesc(_)
SortDesc(seq) ==
    IF seq = <<>> THEN <<>>
    ELSE InsertDesc(SortDesc(SubSeq(seq, 1, Len(seq) - 1)), seq[Len(seq)])

\* stock_scores[:top_n] for top_n >= 0.
Slice(seq, n) == SubSeq(seq, 1, IF n < Len(seq) THEN n ELSE Len(seq))

Init ==
    /\ \E n \in 0..MaxTickers : tickers = SubSeq(Symbols, 1, n)
    /\ top_n = 0
    /\ idx = 0
    /\ pc = "loop"
    /\ src = 0
    /\ metrics = AllAbsent
    /\ calls = <<>>
    /\ log = <<>>
    /\ data = EmptyDict
    /\ score = R(0)
    /\ stock_scores = <<>>
    /\ result = <<>>
    /\ supplied = <<>>
    /\ paused = <<>>

\* analyze_stocks takes the next ticker and calls get_fundamental_data, which
\* creates the metrics dict (lines 244-249, 25-32).
BeginTicker ==
    /\ pc = "loop"
    /\ idx < Len(tickers)
    /\ idx' = idx + 1
    /\ metrics' = AllAbsent
    /\ src' = 1
    /\ calls' = <<>>
    /\ log' = <<>>
    /\ paused' = <<>>
    /\ pc' = "fetch"
    /\ UNCHANGED <<tickers, top_n, data, score, stock_scores, result, supplied>>

\* Variant of FetchWith that re-attempts a source once when its first
\* attempt failed.
FetchWithRetry(dicts) ==
    /\ pc = "fetch"
    /\ \E o \in OutcomesOf(DATA_SOURCES[src], dicts) :
          /\ metrics' = FetchFrom(DATA_SOURCES[src], metrics, o)
          /\ calls' = Append(calls, DATA_SOURCES[src])
          /\ log' = Append(log, o)
          /\ paused' = Append(paused, PauseOf(DATA_SOURCES[src], o))
          /\ IF (o.raised \/ DOMAIN o.ret = {}) /\ Len(calls) = src - 1
             THEN pc' = "fetch" /\ src' = src
             ELSE IF AllAvailable(metrics') \/ src = Len(DATA_SOURCES)
                  THEN pc' = "cleanup" /\ src' = src
                  ELSE pc' = "fetch" /\ src' = src + 1
    /\ UNCHANGED <<tickers, top_n, idx, data, score, stock_scores, result,
                   supplied>>

\* One iteration of the loop over Config.DATA_SOURCES (lines 35-50): the
\* source is invoked, its values are merged, and the loop breaks when all six
\* metrics are available or the sources are exhausted.
\* The providers answer with dicts of the given set.
FetchWith(dicts) ==
    /\ pc = "fetch"
    /\ \E o \in OutcomesOf(DATA_SOURCES[src], dicts) :
          /\ metrics' = FetchFrom(DATA_SOURCES[src], metrics, o)
          /\ calls' = Append(calls, DATA_SOURCES[src])
          /\ log' = Append(log, o)
          /\ paused' = Append(paused, PauseOf(DATA_SOURCES[src], o))
    /\ IF AllAvailable(metrics') \/ src = Len(DATA_SOURCES)
       THEN pc' = "cleanup" /\ src' = src
       ELSE pc' = "fetch" /\ src' = src + 1
    /\ UNCHANGED <<tickers, top_n, idx, data, score, stock_scores, result,
                   supplied>>

FetchSource == FetchWith(ProviderDicts)

\* Line 53.
Cleanup ==
    /\ pc = "cleanup"
    /\ metrics' = ValidateAndCleanup(metrics)
    /\ pc' = "display"
    /\ UNCHANGED <<tickers, top_n, idx, src, calls, log, data, score,
                   stock_scores, result, supplied, paused>>

\* Lines 56-62: _display_metrics, then return metrics; an exception of
\* _display_metrics is caught at line 60 and {} is returned.
DisplayAndReturn ==
    /\ pc = "display"
    /\ data' = IF DisplayRaises(metrics) THEN EmptyDict ELSE metrics
    /\ supplied' = Append(supplied, Supplied(log))
    /\ pc' = "returned"
    /\ UNCHANGED <<tickers, top_n, idx, src, metrics, calls, log, score,
                   stock_scores, result, paused>>

\* Variant of ScoreAndAppend that leaves the loop on an empty data: the
\* tickers after it are not analysed.
ScoreAndAppendAbortOnEmpty ==
    /\ pc = "returned"
    /\ IF DOMAIN data # {}
       THEN /\ score' = CalculateScore(data)
            /\ stock_scores' = Append(stock_scores, <<tickers[idx], score', data>>)
            /\ idx' = idx
       ELSE /\ idx' = Len(tickers)
            /\ UNCHANGED <<score, stock_scores>>
    /\ metrics' = AllAbsent
    /\ src' = 0
    /\ calls' = <<>>
    /\ log' = <<>>
    /\ paused' = <<>>
    /\ pc' = "loop"
    /\ UNCHANGED <<tickers, top_n, data, result, supplied>>

\* Lines 251-254: a non-empty data is scored and appended.  The frame of
\* get_fundamental_data is gone: its locals are reset.
ScoreAndAppend ==
    /\ pc = "returned"
    /\ IF DOMAIN data # {}
       THEN /\ score' = CalculateScore(data)
            /\ stock_scores' = Append(stock_scores, <<tickers[idx], score', data>>)
       ELSE UNCHANGED <<score, stock_scores>>
    /\ metrics' = AllAbsent
    /\ src' = 0
    /\ calls' = <<>>
    /\ log' = <<>>
    /\ paused' = <<>>
    /\ pc' = "loop"
    /\ UNCHANGED <<tickers, top_n, idx, data, result, supplied>>

\* Lines 257-258, for the top_n the caller passed.
SortAndReturn ==
    /\ pc = "loop"
    /\ idx = Len(tickers)
    /\ \E n \in 0..MaxTopN : top_n' = n
    /\ stock_scores' = SortDesc(stock_scores)
    /\ result' = Slice(stock_scores', top_n')
    /\ pc' = "done"
    /\ UNCHANGED <<tickers, idx, src, metrics, calls, log, data, score, supplied,
                   paused>>

Next ==
    \/ BeginTicker
    \/ FetchSource
    \/ Cleanup
    \/ DisplayAndReturn
    \/ ScoreAndAppend
    \/ SortAndReturn

Spec == Init /\ [][Next]_vars

-----------------------------------------------------------------------------
(* analyze_stocks over longer ticker lists, with fewer provider dicts *)

\* Longest ticker list of the ranking specification.
MaxRankTickers == 3

\* All six metrics at one level, or roe alone.
RankDicts ==
    {ProviderDict(Metrics, l) : l \in 1..MaxLevel} \cup {ProviderDict({"roe"}, 1)}

InitRank ==
    /\ \E n \in 0..MaxRankTickers : tickers = SubSeq(Symbols, 1, n)
    /\ top_n = 0
    /\ idx = 0
    /\ pc = "loop"
    /\ src = 0
    /\ metrics = AllAbsent
    /\ calls = <<>>
    /\ log = <<>>
    /\ data = EmptyDict
    /\ score = R(0)
    /\ stock_scores = <<>>
    /\ result = <<>>
    /\ supplied = <<>>
    /\ paused = <<>>

FetchSourceRank == FetchWith(RankDicts)

NextRank ==
    \/ BeginTicker
    \/ FetchSourceRank
    \/ Cleanup
    \/ DisplayAndReturn
    \/ ScoreAndAppend
    \/ SortAndReturn

SpecRank == InitRank /\ [][NextRank]_vars

-----------------------------------------------------------------------------
(* Properties of get_fundamental_data and analyze_stocks, checked under Spec *)

\* The outcome is a failure: an exception or an empty mapping.
Failed(o) == o.raised \/ DOMAIN o.ret = {}

\* The value of metric k in the first outcome of l[i..] that has one.
RECURSIVE FirstGiven(_, _, _)
FirstGiven(l, k, i) ==
    IF i > Len(l) THEN None
    ELSE IF k \in Gives(l[i]) THEN l[i].ret[k]
    ELSE FirstGiven(l, k, i + 1)

\* The metrics cleanup has no default for.
Undefaulted == {"debt_to_equity", "current_ratio", "interest_coverage"}

\* C1: during get_fundamental_data, before cleanup, the value of every metric
\* is the value given by the first provider in Config.DATA_SOURCES order that
\* returned a non-absent value for it (absent if none did): a value set by a
\* provider is not changed by a later one.
C1_FirstProviderWins ==
    pc \in {"fetch", "cleanup"} =>
        /\ Len(log) = Len(calls)
        /\ \A i \in 1..Len(calls) : calls[i] = DATA_SOURCES[i]
        /\ \A k \in Metrics : metrics[k] = FirstGiven(log, k, 1)

\* The first provider gave {roe}, the second gave {roe, debt_to_equity} with
\* other values: the record holds the first one's roe and the second one's
\* debt_to_equity.
C1_Witness ==
    /\ pc = "fetch"
    /\ Len(log) = 2
    /\ log[1] = Returned(ProviderDict({"roe"}, 1))
    /\ log[2] = Returned(ProviderDict({"roe", "debt_to_equity"}, 2))
    /\ metrics["roe"] = LevelVal("roe", 1)
    /\ metrics["roe"] # LevelVal("roe", 2)
    /\ metrics["debt_to_equity"] = LevelVal("debt_to_equity", 2)

\* C2: a ticker for which every provider raised or returned an empty or
\* all-absent result is in neither stock_scores nor the sequence returned by
\* analyze_stocks.
C2_TotalFailureExcluded ==
    \A i \in 1..Len(supplied) :
        supplied[i] = {} =>
            /\ \A j \in 1..Len(stock_scores) : stock_scores[j][1] # tickers[i]
            /\ \A j \in 1..Len(result) : result[j][1] # tickers[i]

\* analyze_stocks has returned, with top_n >= 1, for a ticker all of whose
\* three providers were invoked and gave nothing: the result is empty.
C2_Witness ==
    /\ pc = "done"
    /\ tickers = <<"AAA.NS">>
    /\ supplied = <<{}>>
    /\ top_n >= 1
    /\ result = <<>>

\* C3: if some provider supplied some metric of a ticker but no provider
\* supplied some of debt_to_equity, current_ratio, interest_coverage, then
\* get_fundamental_data returns the six-key record with those metrics absent,
\* and analyze_stocks keeps the ticker in stock_scores.
C3_PartialDataKept ==
    \A i \in 1..Len(supplied) :
        (supplied[i] # {} /\ Undefaulted \ supplied[i] # {}) =>
            /\ (pc = "returned" /\ i = idx) =>
                  /\ DOMAIN data = Metrics
                  /\ \A k \in Undefaulted \ supplied[i] : data[k] = None
            /\ (pc \in {"loop", "done"} \/ i < idx) =>
                  \E j \in 1..Len(stock_scores) : stock_scores[j][1] = tickers[i]

\* What the program does in the case of C3: get_fundamental_data returns {}
\* and the ticker is left out of stock_scores.
C3_PartialDataDropped ==
    \A i \in 1..Len(supplied) :
        Undefaulted \ supplied[i] # {} =>
            /\ (pc = "returned" /\ i = idx) => data = EmptyDict
            /\ \A j \in 1..Len(stock_scores) : stock_scores[j][1] # tickers[i]

\* C4: once all six metrics of the record are non-absent, no further provider
\* is invoked for that ticker.
C4_ShortCircuit ==
    [][(\A k \in Metrics : metrics[k] # None) =>
          (calls' = calls \/ calls' = <<>>)]_vars

\* The first provider alone returned all six metrics, the provider loop has
\* ended, and it is the only provider that was invoked.
C4_Witness ==
    /\ pc = "cleanup"
    /\ Gives(log[1]) = Metrics
    /\ calls = <<"yfinance_info">>

\* C5: a provider call that raises or returns an empty mapping leaves the
\* record as merged so far unchanged, is followed by the next provider in
\* priority order (by cleanup after the last one), and cleanup is applied.
C5_FailureContinues ==
    [][/\ (pc = "fetch" /\ Len(log') = Len(log) + 1 /\ Failed(log'[Len(log')])) =>
             /\ metrics' = metrics
             /\ calls' = Append(calls, DATA_SOURCES[src])
             /\ IF src < Len(DATA_SOURCES)
                THEN pc' = "fetch" /\ src' = src + 1
                ELSE pc' = "cleanup"
       /\ pc = "cleanup" =>
             /\ pc' = "display"
             /\ \A k \in {"roe", "net_profit_margin", "free_cash_flow"} :
                   IsNum(metrics'[k])]_vars

\* The first provider gave roe, the second and the third failed: all three
\* were invoked, cleanup has run and roe is the first provider's.
C5_Witness ==
    /\ pc = "display"
    /\ calls = DATA_SOURCES
    /\ "roe" \in Gives(log[1])
    /\ Failed(log[2])
    /\ Failed(log[3])
    /\ metrics["roe"] = log[1].ret["roe"]

\* C6: cleanup runs once after the provider loop, complete record or not:
\* absent roe and net_profit_margin become 0; free_cash_flow becomes a
\* number, 0 if it was absent or non-numeric; debt_to_equity, current_ratio
\* and interest_coverage keep their state.
C6_Cleanup ==
    [][pc = "cleanup" =>
          /\ pc' = "display"
          /\ \A k \in {"roe", "net_profit_margin"} :
                metrics[k] = None => metrics'[k] = Num(0)
          /\ IsNum(metrics'["free_cash_flow"])
          /\ ~IsNum(metrics["free_cash_flow"]) => metrics'["free_cash_flow"] = Num(0)
          /\ \A k \in Undefaulted : metrics'[k] = metrics[k]]_vars

\* No provider gave anything; after cleanup roe, net_profit_margin and
\* free_cash_flow are 0 and the other three are still absent.
C6_Witness ==
    /\ pc = "display"
    /\ Len(log) = 3
    /\ Supplied(log) = {}
    /\ metrics["roe"] = Num(0)
    /\ metrics["net_profit_margin"] = Num(0)
    /\ metrics["free_cash_flow"] = Num(0)
    /\ \A k \in Undefaulted : metrics[k] = None

\* A complete record whose free_cash_flow was a non-numeric string has been
\* cleaned up: free_cash_flow is 0, debt_to_equity kept its value.
C6_WitnessNonNumeric ==
    /\ pc = "display"
    /\ log = <<Returned(NonNumericFcfDict)>>
    /\ metrics["free_cash_flow"] = Num(0)
    /\ metrics["debt_to_equity"] = LevelVal("debt_to_equity", 1)

-----------------------------------------------------------------------------
(* Inputs of the scoring specification *)

\* Index of the last point of the coarse value grid.
MaxStep == 3

\* Index of the last point of the fine value grid.
MaxFine == 10

\* Coarse grid: -t, 0, t, 2t, ... in multiples of the metric's threshold t.
CoarseVals(k) == {Num((i - 1) * THRESHOLDS[k]) : i \in 0..MaxStep}

\* Fine grid: quarter-threshold steps from -t/2 upwards, and two extreme values.
FineVals(k) ==
    {Num(j * (THRESHOLDS[k] \div 4)) : j \in (-2)..MaxFine}
        \cup {Num(1000 * THRESHOLDS[k]), Num(-1000 * THRESHOLDS[k])}

\* Records of six metrics, each absent or on the coarse grid.
CoarseRecords ==
    {[roe |-> a, debt_to_equity |-> b, net_profit_margin |-> c,
      current_ratio |-> d, interest_coverage |-> e, free_cash_flow |-> f] :
        a \in CoarseVals("roe") \cup {None},
        b \in CoarseVals("debt_to_equity") \cup {None},
        c \in CoarseVals("net_profit_margin") \cup {None},
        d \in CoarseVals("current_ratio") \cup {None},
        e \in CoarseVals("interest_coverage") \cup {None},
        f \in CoarseVals("free_cash_flow") \cup {None}}

\* Records with exactly one metric present, on the fine grid.
FineRecords ==
    {[AllAbsent EXCEPT ![k] = v] : <<k, v>> \in
        UNION {{<<kk, vv>> : vv \in FineVals(kk)} : kk \in Metrics}}

ScoreInputs == CoarseRecords \cup FineRecords

-----------------------------------------------------------------------------
(* Specification of calculate_score as a pure function *)

InitScore ==
    /\ pc = "score_call"
    /\ metrics \in ScoreInputs
    /\ score = R(0)
    /\ tickers = <<>>
    /\ top_n = 0
    /\ idx = 0
    /\ src = 0
    /\ calls = <<>>
    /\ log = <<>>
    /\ data = EmptyDict
    /\ stock_scores = <<>>
    /\ result = <<>>
    /\ supplied = <<>>
    /\ paused = <<>>

CalculateScoreCall ==
    /\ pc = "score_call"
    /\ score' = CalculateScore(metrics)
    /\ pc' = "score_ret"
    /\ UNCHANGED <<tickers, top_n, idx, src, metrics, calls, log, data,
                   stock_scores, result, supplied, paused>>

NextScore == CalculateScoreCall

SpecScore == InitScore /\ [][NextScore]_vars

-----------------------------------------------------------------------------
(* Properties of calculate_score, checked under SpecScore *)

Present(m) == {k \in Metrics : m[k] # None}

\* The record with the one metric k present, at value v.
Only(k, v) == [AllAbsent EXCEPT ![k] = Num(v)]

Higher == {k \in Metrics : METRIC_DIRECTION[k] = "higher"}

\* C7: for every record over the six metric names (each value absent or any
\* number, negative and very large ones included) calculate_score returns a
\* value in the closed range [0, 100].
C7_ScoreInRange ==
    pc = "score_ret" => /\ score[2] > 0
                        /\ 0 <= score[1]
                        /\ score[1] <= 100 * score[2]

\* A record with a negative value, a value far above twice its threshold and
\* an absent metric has been scored, strictly inside the range.
C7_Witness ==
    /\ pc = "score_ret"
    /\ metrics["roe"] = Num(-12)
    /\ metrics["current_ratio"] = Num(240)
    /\ metrics["net_profit_margin"] = Num(8)
    /\ metrics["interest_coverage"] = None
    /\ 0 < score[1]
    /\ score[1] < 100 * score[2]

\* A single metric 1000 thresholds above zero scores exactly 100.
C7_WitnessLarge ==
    /\ pc = "score_ret"
    /\ metrics = Only("roe", 1000 * THRESHOLDS["roe"])
    /\ score = R(100)

\* C8: for every higher-is-better metric (roe, net_profit_margin,
\* current_ratio, interest_coverage, free_cash_flow) with its configured
\* threshold t, the sub-score is exactly 50 at value = t, exactly 100 at
\* value = 2t and 0 at value = 0.  (A record with one metric present scores
\* that metric's sub-score.)
C8_HigherAnchors ==
    pc = "score_ret" =>
        \A k \in Higher :
            /\ metrics = Only(k, THRESHOLDS[k]) => score = R(50)
            /\ metrics = Only(k, 2 * THRESHOLDS[k]) => score = R(100)
            /\ metrics = Only(k, 0) => score = R(0)

\* The three anchors of C8 for the higher-is-better metrics whose configured
\* threshold is positive (all of them but free_cash_flow).
C8_PositiveThresholdAnchors ==
    pc = "score_ret" =>
        \A k \in Higher :
            THRESHOLDS[k] > 0 =>
                /\ metrics = Only(k, THRESHOLDS[k]) => score = R(50)
                /\ metrics = Only(k, 2 * THRESHOLDS[k]) => score = R(100)
                /\ metrics = Only(k, 0) => score = R(0)

\* free_cash_flow at its threshold, and at twice its threshold, scores 0.
C8_FcfAtThreshold ==
    pc = "score_ret" =>
        /\ metrics = Only("free_cash_flow", THRESHOLDS["free_cash_flow"])
             => score = R(0)
        /\ metrics = Only("free_cash_flow", 2 * THRESHOLDS["free_cash_flow"])
             => score = R(0)

\* C9: the sub-score of debt_to_equity (lower is better, threshold t) follows
\* only the threshold branches, at zero and negative values too: 100 for
\* value <= t/2; linear from 100 at t/2 down to 50 at t; linear from 50 at t
\* down to 0 at 2t; 0 for every value >= 2t.
C9_DebtToEquityBranches ==
    (pc = "score_ret" /\ Present(metrics) = {"debt_to_equity"}) =>
            LET t == THRESHOLDS["debt_to_equity"]
                v == metrics["debt_to_equity"][1]
            IN  /\ 2 * v <= t => score = R(100)
                /\ (t < 2 * v /\ v <= t) => score = Frac(150 * t - 100 * v, t)
                /\ (t < v /\ v < 2 * t) => score = Frac(100 * t - 50 * v, t)
                /\ v >= 2 * t => score = R(0)

\* debt_to_equity alone at a negative value has been scored 100.
C9_Witness ==
    /\ pc = "score_ret"
    /\ metrics = Only("debt_to_equity", -100)
    /\ score = R(100)

\* debt_to_equity alone at 3t/4 has been scored 75, at 3t/2 it has been scored 25.
C9_WitnessMiddle ==
    /\ pc = "score_ret"
    /\ \/ metrics = Only("debt_to_equity", 150) /\ score = R(75)
       \/ metrics = Only("debt_to_equity", 300) /\ score = R(25)

\* One term of the sums of C10: <<sub_score * weight, 100 * weight>> of a
\* present metric, <<0, 0>> of an absent one.
C10_Term(m, k) ==
    IF k \in Present(m)
    THEN <<RMul(MetricScore(k, m[k][1], THRESHOLDS[k], METRIC_DIRECTION[k]),
                R(WEIGHTS[k])),
           100 * WEIGHTS[k]>>
    ELSE <<R(0), 0>>

C10_Numerator(m) ==
    RAdd(C10_Term(m, "roe")[1],
    RAdd(C10_Term(m, "debt_to_equity")[1],
    RAdd(C10_Term(m, "net_profit_margin")[1],
    RAdd(C10_Term(m, "current_ratio")[1],
    RAdd(C10_Term(m, "interest_coverage")[1],
         C10_Term(m, "free_cash_flow")[1])))))

C10_Denominator(m) ==
    C10_Term(m, "roe")[2] + C10_Term(m, "debt_to_equity")[2]
        + C10_Term(m, "net_profit_margin")[2] + C10_Term(m, "current_ratio")[2]
        + C10_Term(m, "interest_coverage")[2] + C10_Term(m, "free_cash_flow")[2]

\* Weight and threshold tables that differ from Config on the absent metrics of m.
C10_OtherWeights(m) ==
    [k \in Metrics |-> IF m[k] = None THEN WEIGHTS[k] + 30 ELSE WEIGHTS[k]]

C10_OtherThresholds(m) ==
    [k \in Metrics |-> IF m[k] = None THEN 3 * THRESHOLDS[k] ELSE THRESHOLDS[k]]

\* C10: absent metrics are left out of numerator and denominator: the score
\* is 100 * SUM(sub_score_i * weight_i) / SUM(100 * weight_i) over the
\* non-absent metrics only, it is the same whatever weights and thresholds
\* the absent metrics have, and it is 0 when every metric is absent.
C10_AbsentExcluded ==
    pc = "score_ret" =>
        /\ Present(metrics) # {} =>
              score = RDiv(RMul(R(100), C10_Numerator(metrics)),
                           R(C10_Denominator(metrics)))
        /\ Present(metrics) = {} => score = R(0)
        /\ score = CalculateScoreWith(metrics, C10_OtherWeights(metrics),
                                      C10_OtherThresholds(metrics))

\* A record with absent and present metrics has been scored: roe at its
\* threshold (sub-score 50, weight 25) and debt_to_equity at its threshold
\* (sub-score 50, weight 15), the other four absent: score 50.
C10_Witness ==
    /\ pc = "score_ret"
    /\ Present(metrics) = {"roe", "debt_to_equity"}
    /\ metrics["roe"] = Num(12)
    /\ metrics["debt_to_equity"] = Num(200)
    /\ score = R(50)

-----------------------------------------------------------------------------
(* Properties of analyze_stocks, checked under SpecRank *)

\* Score a is greater than score b.
Greater(a, b) == ~RLe(a, b)

\* The place of entry p of list l in the order by score descending, entries
\* of equal score in the order of l.
Rank(l, p) ==
    1 + Cardinality({q \in 1..Len(l) : Greater(l[q][2], l[p][2])})
      + Cardinality({q \in 1..(p - 1) : l[q][2] = l[p][2]})

\* The entries of a list, as a set.
Entries(l) == {l[i] : i \in 1..Len(l)}

\* C11: analyze_stocks returns the first min(top_n, k) of the k included
\* results in the order of score descending, entries of equal score in the
\* order their tickers were given; so the length is at most top_n and every
\* returned score is at least every score that is included but not returned.
C11_TopNStable ==
    [][(pc = "loop" /\ pc' = "done") =>
          LET pre == stock_scores
              out == result'
              k   == Len(pre)
          IN  /\ top_n' >= 0
              /\ Len(out) = IF top_n' < k THEN top_n' ELSE k
              /\ Len(out) <= top_n'
              /\ \A p \in 1..k :
                    Rank(pre, p) <= top_n' => out[Rank(pre, p)] = pre[p]
              /\ \A e \in Entries(pre) \ Entries(out) :
                    \A i \in 1..Len(out) : RLe(e[2], out[i][2])
    ]_vars

\* Three tickers were included, the first with a lower score than the two
\* others, which are tied; top_n is 2: the tied pair is returned in the order
\* given and the first ticker is left out.
C11_Witness ==
    /\ pc = "done"
    /\ top_n = 2
    /\ Len(stock_scores) = 3
    /\ Len(result) = 2
    /\ result[1][1] = "BBB.NS"
    /\ result[2][1] = "CCC.NS"
    /\ result[1][2] = result[2][2]
    /\ stock_scores[3][1] = "AAA.NS"
    /\ Greater(result[2][2], stock_scores[3][2])

\* The metrics dict of a get_fundamental_data call that starts from a fresh
\* dict and receives the first i outcomes of l from the sources in order.
RECURSIVE AloneMetrics(_, _)
AloneMetrics(l, i) ==
    IF i = 0 THEN AllAbsent
    ELSE FetchFrom(DATA_SOURCES[i], AloneMetrics(l, i - 1), l[i])

\* What that call returns.
AloneData(l) ==
    LET m == ValidateAndCleanup(AloneMetrics(l, Len(l)))
    IN  IF DisplayRaises(m) THEN EmptyDict ELSE m

\* C12: tickers are isolated.  When get_fundamental_data returns, the entry
\* appended for the ticker is the one its own provider outcomes give from a
\* fresh record, whatever the tickers before it were; an empty result appends
\* nothing and the loop goes on with the same position; no step of one
\* ticker's reconciliation changes the entries of the others; and the list
\* is sorted only after get_fundamental_data has returned for every ticker.
C12_Isolation ==
    [][/\ pc = "returned" =>
             LET d == AloneData(log)
             IN  /\ pc' = "loop" /\ idx' = idx /\ tickers' = tickers
                 /\ stock_scores' =
                       IF DOMAIN d = {} THEN stock_scores
                       ELSE Append(stock_scores,
                                   <<tickers[idx], CalculateScore(d), d>>)
       /\ (pc \in {"fetch", "cleanup", "display"} \/ pc' = "fetch") =>
             stock_scores' = stock_scores /\ tickers' = tickers
       /\ pc' = "done" =>
             Len(supplied) = Len(tickers) /\ Entries(stock_scores') = Entries(stock_scores)
    ]_vars

\* Three tickers were analysed; every provider of the second failed, and
\* the first and the third are in the result.
C12_Witness ==
    /\ pc = "done"
    /\ Len(tickers) = 3
    /\ Len(supplied) = 3
    /\ supplied[2] = {}
    /\ {stock_scores[i][1] : i \in 1..Len(stock_scores)} = {"AAA.NS", "CCC.NS"}

-----------------------------------------------------------------------------
(* Properties of the provider calls, checked under Spec *)

\* C13: every call of get_screener_data, failed or not, pauses
\* Config.SCRAPER_DELAY seconds before it returns, and the calls of the two
\* other providers do not pause.
C13_ScreenerPauses ==
    /\ Len(paused) = Len(calls)
    /\ Len(log) = Len(calls)
    /\ \A i \in 1..Len(calls) :
          paused[i] = IF calls[i] = "screener" THEN SCRAPER_DELAY ELSE 0

\* The screener was called after two providers that did not pause, its
\* scrape failed, and it paused.
C13_Witness ==
    /\ pc = "cleanup"
    /\ Len(calls) = 3
    /\ calls[3] = "screener"
    /\ Failed(log[3])
    /\ paused = <<0, 0, SCRAPER_DELAY>>

\* The screener was called, its scrape gave values, and it paused.
C13_WitnessSuccess ==
    /\ pc = "cleanup"
    /\ Len(calls) = 3
    /\ calls[3] = "screener"
    /\ ~Failed(log[3])
    /\ paused[3] = SCRAPER_DELAY

\* C14: within one get_fundamental_data call the providers are invoked in
\* the order of Config.DATA_SOURCES, each at most once: the calls made so
\* far are a prefix of DATA_SOURCES, so no provider is invoked before the
\* ones of higher priority, and none is invoked again after it failed.
C14_PriorityOrderOnce ==
    /\ Len(calls) <= Len(DATA_SOURCES)
    /\ \A i \in 1..Len(calls) : calls[i] = DATA_SOURCES[i]
    /\ \A i, j \in 1..Len(calls) : calls[i] = calls[j] => i = j
    /\ pc = "fetch" => src = Len(calls) + 1

\* The first two providers failed and the third was invoked: each provider
\* was called once, in the configured order.
C14_Witness ==
    /\ pc = "cleanup"
    /\ calls = <<"yfinance_info", "yfinance_calculated", "screener">>
    /\ Failed(log[1])
    /\ Failed(log[2])

\* The outcomes of all sources: the logged ones, then o2 and o3 for the
\* sources the loop did not reach.
AllOutcomes(l, o2, o3) ==
    [i \in 1..Len(DATA_SOURCES) |->
        IF i <= Len(l) THEN l[i] ELSE IF i = 2 THEN o2 ELSE o3]

\* What source i may answer when the loop did not reach it; the logged
\* outcome when it did.
Unreached(l, i) == IF i <= Len(l) THEN {l[i]} ELSE Outcomes(DATA_SOURCES[i])

\* C15: the break is an optimisation only.  Whatever the sources the loop
\* did not reach would have answered, the record get_fundamental_data
\* returns is the record of the run that invokes every source in order
\* without the break.
C15_BreakIsOptimisation ==
    pc = "returned" =>
        \A o2 \in Unreached(log, 2), o3 \in Unreached(log, 3) :
            data = AloneData(AllOutcomes(log, o2, o3))

\* The loop broke after the first provider, which supplied all six metrics,
\* and the record was returned.
C15_Witness ==
    /\ pc = "returned"
    /\ Len(calls) = 1
    /\ Gives(log[1]) = Metrics
    /\ DOMAIN data = Metrics

-----------------------------------------------------------------------------
(* Monotonicity of calculate_score, checked under SpecScore *)

\* The amounts a metric is raised by: the smallest step, a quarter of the
\* threshold (the step of the fine grid) and the whole threshold (the step
\* of the coarse grid).
Raises(k) == {1, Abs(THRESHOLDS[k]) \div 4, Abs(THRESHOLDS[k])}

\* The score of record m with metric k raised by d.
ScoreRaised(m, k, d) == CalculateScore([m EXCEPT ![k] = Num(m[k][1] + d)])

\* C16: calculate_score is monotone in each metric, the others held fixed:
\* raising a present higher-is-better metric never lowers the score, and
\* raising debt_to_equity never raises it.
C16_Monotone ==
    pc = "score_ret" =>
        \A k \in Present(metrics) :
            \A d \in Raises(k) :
                IF METRIC_DIRECTION[k] = "higher"
                THEN RLe(score, ScoreRaised(metrics, k, d))
                ELSE RLe(ScoreRaised(metrics, k, d), score)

\* roe, debt_to_equity and current_ratio at their thresholds, the others
\* absent: score 50; a quarter threshold more roe gives a greater score and
\* a quarter threshold more debt_to_equity a smaller one.
C16_Witness ==
    /\ pc = "score_ret"
    /\ Present(metrics) = {"roe", "debt_to_equity", "current_ratio"}
    /\ metrics["roe"] = Num(12)
    /\ metrics["debt_to_equity"] = Num(200)
    /\ metrics["current_ratio"] = Num(120)
    /\ score = R(50)
    /\ Greater(ScoreRaised(metrics, "roe", 3), score)
    /\ Greater(score, ScoreRaised(metrics, "debt_to_equity", 50))

\* debt_to_equity alone, at half its threshold, the boundary of the first
\* two branches: score 100, and one step more gives a smaller score.
C16_WitnessBoundary ==
    /\ pc = "score_ret"
    /\ Present(metrics) = {"debt_to_equity"}
    /\ metrics["debt_to_equity"] = Num(100)
    /\ score = R(100)
    /\ Greater(score, ScoreRaised(metrics, "debt_to_equity", 1))

====
